---- MODULE Spec2Model ----
(***************************************************************************)
(* Model of train.py, the YOLOv3 training driver of keras-yolo3:           *)
(*   create_training_instances  (dataset split and label reconciliation)   *)
(*   create_callbacks           (EarlyStopping + ModelCheckpoint policy)   *)
(*   _main_                     (generators, warmup, model, fit, reload,   *)
(*                               persist, evaluate)                        *)
(*                                                                         *)
(* Label names are modelled by their rank in string order (1 < 2 as        *)
(* "cat" < "dog"), instances by their position in the parser's result      *)
(* (training: 1..n, validation: -1..-m), validation losses by integers in  *)
(* units of 0.0005 together with NaN.                                      *)
(***************************************************************************)
EXTENDS Integers, Sequences, FiniteSets, TLC

(************************* bounds of the model ****************************)
MaxTrain == 3       \* most instances the parser yields for the training folders
MaxLabelLen == 2    \* longest configured label list (model.labels)
MaxGenLen == 2      \* largest len() of a batch generator
MaxEpochs == 5      \* largest train.nb_epochs
MaxLoss == 3        \* largest validation loss, in units of 0.0005

(********************** constants of the program **************************)
PATIENCE == 3       \* EarlyStopping(patience=3)
MIN_DELTA == 2      \* EarlyStopping(min_delta=0.001), in units of 0.0005

LabelNames == {1, 2}

VARIABLES
    config,          \* the JSON configuration, read once
    disk,            \* what the annotation folders hold and what len() of a generator is
    file,            \* the file at train.saved_weights_name
    pc,              \* position of the run in _main_ / create_training_instances
    frame,           \* locals of create_training_instances while it runs
    train_ints, valid_ints, labels,     \* _main_'s locals, set by the call at line 95
    train_generator, valid_generator,
    warmup_batches,
    model,           \* the (train_model, infer_model) pair made by create_yolov3_model
    train_weights, infer_weights,
    epoch, val_losses, stop_training,   \* the fit loop and its History of val_loss
    early_stop, checkpoint,             \* state of the two callbacks
    evaluated,
    error

vars == <<config, disk, file, pc, frame, train_ints, valid_ints, labels,
          train_generator, valid_generator, warmup_batches, model,
          train_weights, infer_weights, epoch, val_losses, stop_training,
          early_stop, checkpoint, evaluated, error>>

envVars == <<config, disk>>
resultVars == <<train_ints, valid_ints, labels>>
mainVars == <<train_generator, valid_generator, warmup_batches, model,
              train_weights, infer_weights, evaluated, error>>
fitVars == <<epoch, val_losses, stop_training, early_stop, checkpoint>>

(****************************** values ************************************)
\* Python's None and a present value
None == [none |-> TRUE, val |-> <<>>]
Some(x) == [none |-> FALSE, val |-> x]

\* a validation loss: a number, NaN, or the +inf a callback starts its best from
Num(v) == [k |-> "num", v |-> v]
NaN == [k |-> "nan", v |-> 0]
Inf == [k |-> "inf", v |-> 0]
LossValues == {Num(v) : v \in 0..MaxLoss} \cup {NaN}

\* np.less(a, b) on these values
Less(a, b) ==
    IF a.k = "nan" \/ b.k = "nan" THEN FALSE
    ELSE IF a.k = "inf" THEN FALSE
    ELSE IF b.k = "inf" THEN TRUE
    ELSE a.v < b.v

\* a + d for a number d
Plus(a, d) == IF a.k = "num" THEN Num(a.v + d) ELSE a

\* a set of weights: where it came from and the val_loss it scored
NoWeights == [origin |-> "none", epoch |-> 0, val_loss |-> Inf]
BackendWeights == [origin |-> "backend", epoch |-> 0, val_loss |-> Inf]
PriorWeights(v) == [origin |-> "prior", epoch |-> 0, val_loss |-> Num(v)]
EpochWeights(e, l) == [origin |-> "epoch", epoch |-> e, val_loss |-> l]

NoFile == [exists |-> FALSE, writer |-> "none", weights |-> NoWeights]
PriorFile(v) == [exists |-> TRUE, writer |-> "prior", weights |-> PriorWeights(v)]

NoFrame == [train_ints |-> <<>>, train_labels |-> {}, valid_ints |-> <<>>,
            valid_labels |-> {}, labels |-> <<>>]
NoGenerator == [built |-> FALSE, instances |-> None, labels |-> None, len |-> 0]
NoModel == [created |-> FALSE, nb_class |-> 0, warmup_batches |-> 0]

SeqsUpTo(S, n) == UNION {[1..k -> S] : k \in 0..n}
ToSet(s) == {s[i] : i \in 1..Len(s)}

(************************* create_training_instances **********************)
\* parse_voc_annotation: the instances of a folder, in the parser's order
ParsedTrain(n) == [i \in 1..n |-> i]
ParsedValid(m) == [i \in 1..m |-> 0 - i]

\* line 38: which way the validation set is obtained
ValidBranchMut(exists) == IF exists THEN "split" ELSE "parse_valid"
ValidBranch(exists) == IF exists THEN "parse_valid" ELSE "split"

\* line 35
ParseTrain ==
    /\ pc = "parse_train"
    /\ frame' = [NoFrame EXCEPT !.train_ints = ParsedTrain(disk.train_n),
                                !.train_labels = disk.train_seen,
                                !.labels = config.labels]
    /\ pc' = ValidBranch(disk.valid_annot_exists)
    /\ UNCHANGED <<envVars, file, resultVars, mainVars, fitVars>>

\* lines 39-40
ParseValid ==
    /\ pc = "parse_valid"
    /\ frame' = [frame EXCEPT !.valid_ints = ParsedValid(disk.valid_n),
                              !.valid_labels = disk.valid_seen]
    /\ pc' = "compare_labels"
    /\ UNCHANGED <<envVars, file, resultVars, mainVars, fitVars>>

\* line 42: int(0.8*len(train_ints))
SplitPointMut(n) == (2 * n) \div 10
SplitPoint(n) == (8 * n) \div 10

\* np.random.shuffle: every reordering of the list
Shuffles(s) ==
    {p \in [1..Len(s) -> ToSet(s)] : \A i, j \in 1..Len(s) : p[i] = p[j] => i = j}

\* lines 42-46
ShuffleSplit ==
    /\ pc = "split"
    /\ \E shuffled \in Shuffles(frame.train_ints) :
          LET train_valid_split == SplitPoint(Len(frame.train_ints))
          IN  frame' = [frame EXCEPT
                  !.valid_ints = SubSeq(shuffled, train_valid_split + 1, Len(shuffled)),
                  !.train_ints = SubSeq(shuffled, 1, train_valid_split)]
    /\ pc' = "compare_labels"
    /\ UNCHANGED <<envVars, file, resultVars, mainVars, fitVars>>

\* lines 50 and 57: len(overlap_labels) < len(labels)
SomeLabelUnseenMut(given, seen) == Cardinality(ToSet(given) \cap seen) = 0
SomeLabelUnseen(given, seen) == Cardinality(ToSet(given) \cap seen) < Len(given)

\* line 62: sorted(train_labels.keys())
RECURSIVE SortedMut(_)
SortedMut(S) ==
    IF S = {} THEN <<>>
    ELSE LET m == CHOOSE x \in S : \A y \in S : y <= x
         IN  <<m>> \o SortedMut(S \ {m})
RECURSIVE Sorted(_)
Sorted(S) ==
    IF S = {} THEN <<>>
    ELSE LET m == CHOOSE x \in S : \A y \in S : x <= y
         IN  <<m>> \o Sorted(S \ {m})

\* lines 49-64, and the assignment of the result at line 95
CompareLabels ==
    /\ pc = "compare_labels"
    /\ IF Len(frame.labels) > 0
       THEN IF SomeLabelUnseen(frame.labels, frame.train_labels)
            THEN /\ train_ints' = None
                 /\ valid_ints' = None
                 /\ labels' = None
            ELSE /\ train_ints' = Some(frame.train_ints)
                 /\ valid_ints' = Some(frame.valid_ints)
                 /\ labels' = Some(frame.labels)
       ELSE /\ train_ints' = Some(frame.train_ints)
            /\ valid_ints' = Some(frame.valid_ints)
            /\ labels' = Some(Sorted(frame.train_labels))
    /\ frame' = NoFrame
    /\ pc' = "train_generator"
    /\ UNCHANGED <<envVars, file, mainVars, fitVars>>

(********************************* _main_ *********************************)
\* BatchGenerator(instances, labels, ...): the class lives outside train.py.
\* Given a list it builds the generator; what it does with None is not decided
\* by train.py, so both outcomes are possible: it raises, or it returns.
Construct(instances, given, length) ==
    [built |-> TRUE, instances |-> instances, labels |-> given, len |-> length]

\* lines 107-119
TrainGenerator ==
    /\ pc = "train_generator"
    /\ \/ /\ train_generator' = Construct(train_ints, labels, disk.len_train)
          /\ pc' = "valid_generator"
          /\ error' = error
       \/ /\ train_ints.none
          /\ train_generator' = train_generator
          /\ pc' = "error"
          /\ error' = "BatchGenerator"
    /\ UNCHANGED <<envVars, file, frame, resultVars, valid_generator, warmup_batches,
                   model, train_weights, infer_weights, evaluated, fitVars>>

\* lines 121-133
ValidGenerator ==
    /\ pc = "valid_generator"
    /\ \/ /\ valid_generator' = Construct(valid_ints, labels, disk.len_valid)
          /\ pc' = "warmup"
          /\ error' = error
       \/ /\ valid_ints.none
          /\ valid_generator' = valid_generator
          /\ pc' = "error"
          /\ error' = "BatchGenerator"
    /\ UNCHANGED <<envVars, file, frame, resultVars, train_generator, warmup_batches,
                   model, train_weights, infer_weights, evaluated, fitVars>>

\* lines 138-142
WarmupBatchesMut(exists, cfg, len_train, len_valid) ==
    IF exists THEN 0
    ELSE cfg.warmup_epochs * (cfg.train_times * len_valid + cfg.valid_times * len_train)
WarmupBatches(exists, cfg, len_train, len_valid) ==
    IF exists THEN 0
    ELSE cfg.warmup_epochs * (cfg.train_times * len_train + cfg.valid_times * len_valid)

\* lines 138-142; len() of a generator built from None may raise as well
Warmup ==
    /\ pc = "warmup"
    /\ \/ /\ warmup_batches' = WarmupBatches(file.exists, config,
                                             train_generator.len, valid_generator.len)
          /\ pc' = "create_model"
          /\ error' = error
       \/ /\ ~file.exists
          /\ train_generator.instances.none
          /\ warmup_batches' = warmup_batches
          /\ pc' = "error"
          /\ error' = "len(generator)"
    /\ UNCHANGED <<envVars, file, frame, resultVars, train_generator, valid_generator,
                   model, train_weights, infer_weights, evaluated, fitVars>>

\* lines 144-152; nb_class = len(labels) raises TypeError when labels is None
CreateModel ==
    /\ pc = "create_model"
    /\ IF labels.none
       THEN /\ pc' = "error"
            /\ error' = "len(labels)"
            /\ model' = model
       ELSE /\ model' = [created |-> TRUE, nb_class |-> Len(labels.val),
                         warmup_batches |-> warmup_batches]
            /\ pc' = "load_weights"
            /\ error' = error
    /\ UNCHANGED <<envVars, file, frame, resultVars, train_generator, valid_generator,
                   warmup_batches, train_weights, infer_weights, evaluated, fitVars>>

\* lines 155-159
LoadWeights ==
    /\ pc = "load_weights"
    /\ train_weights' = IF file.exists THEN file.weights ELSE BackendWeights
    /\ pc' = "compile"
    /\ UNCHANGED <<envVars, file, frame, resultVars, train_generator, valid_generator,
                   warmup_batches, model, infer_weights, evaluated, error, fitVars>>

(**************************** create_callbacks ****************************)
\* EarlyStopping(monitor='val_loss', min_delta=0.001, patience=3, mode='min'):
\* an epoch improves when np.less(current - (-min_delta), best)
EarlyStopImprovedMut(current, best) == Less(current, best)
EarlyStopImproved(current, best) == Less(Plus(current, MIN_DELTA), best)

\* ModelCheckpoint(monitor='val_loss', save_best_only=True, mode='min', period=1):
\* an epoch is saved when np.less(current, best)
CheckpointImprovedMut(current, best) == Less(current, best) \/ current = best
CheckpointImproved(current, best) == Less(current, best)

\* lines 164-167 and the start of fit_generator (on_train_begin)
Compile ==
    /\ pc = "compile"
    /\ early_stop' = [best |-> Inf, wait |-> 0]
    /\ checkpoint' = [best |-> Inf]
    /\ epoch' = 0
    /\ val_losses' = <<>>
    /\ stop_training' = FALSE
    /\ pc' = "fit"
    /\ UNCHANGED <<envVars, file, frame, resultVars, mainVars>>

\* line 172
Epochs == config.nb_epochs + config.warmup_epochs

\* lines 169-179: one epoch of fit_generator, with on_epoch_end of
\* [early_stop, checkpoint] in that order
FitEpoch ==
    /\ pc = "fit"
    /\ epoch < Epochs
    /\ ~stop_training
    /\ \E current \in LossValues :
          LET improved == EarlyStopImproved(current, early_stop.best)
              wait == IF improved THEN 0 ELSE early_stop.wait + 1
              trained == EpochWeights(epoch + 1, current)
              save == CheckpointImproved(current, checkpoint.best)
          IN  /\ train_weights' = trained
              /\ val_losses' = Append(val_losses, current)
              /\ early_stop' = [best |-> IF improved THEN current ELSE early_stop.best,
                                wait |-> wait]
              /\ stop_training' = (~improved /\ wait >= PATIENCE)
              /\ checkpoint' = [best |-> IF save THEN current ELSE checkpoint.best]
              /\ file' = IF save
                         THEN [exists |-> TRUE, writer |-> "checkpoint", weights |-> trained]
                         ELSE file
    /\ epoch' = epoch + 1
    /\ pc' = "fit"
    /\ UNCHANGED <<envVars, frame, resultVars, train_generator, valid_generator,
                   warmup_batches, model, infer_weights, evaluated, error>>

\* line 181, once fit_generator has returned
Reload ==
    /\ pc = "fit"
    /\ epoch >= Epochs \/ stop_training
    /\ IF file.exists
       THEN /\ infer_weights' = file.weights
            /\ pc' = "save"
            /\ error' = error
       ELSE /\ infer_weights' = infer_weights
            /\ pc' = "error"
            /\ error' = "load_weights"
    /\ UNCHANGED <<envVars, file, frame, resultVars, train_generator, valid_generator,
                   warmup_batches, model, train_weights, evaluated, fitVars>>

\* line 182
SaveMut ==
    /\ pc = "save"
    /\ file' = [exists |-> TRUE, writer |-> "infer", weights |-> train_weights]
    /\ pc' = "evaluate"
    /\ UNCHANGED <<envVars, frame, resultVars, mainVars, fitVars>>
Save ==
    /\ pc = "save"
    /\ file' = [exists |-> TRUE, writer |-> "infer", weights |-> infer_weights]
    /\ pc' = "evaluate"
    /\ UNCHANGED <<envVars, frame, resultVars, mainVars, fitVars>>

\* lines 188-193
Evaluate ==
    /\ pc = "evaluate"
    /\ evaluated' = TRUE
    /\ pc' = "done"
    /\ UNCHANGED <<envVars, file, frame, resultVars, train_generator, valid_generator,
                   warmup_batches, model, train_weights, infer_weights, error, fitVars>>

(****************************** the runs **********************************)
\* The state when _main_ starts, for one configuration and one content of the disk.
Start(cfg, dsk) ==
    /\ config = cfg
    /\ disk = dsk
    /\ file = dsk.prior_file
    /\ pc = "parse_train"
    /\ frame = NoFrame
    /\ train_ints = None
    /\ valid_ints = None
    /\ labels = None
    /\ train_generator = NoGenerator
    /\ valid_generator = NoGenerator
    /\ warmup_batches = 0
    /\ model = NoModel
    /\ train_weights = NoWeights
    /\ infer_weights = NoWeights
    /\ epoch = 0
    /\ val_losses = <<>>
    /\ stop_training = FALSE
    /\ early_stop = [best |-> Inf, wait |-> 0]
    /\ checkpoint = [best |-> Inf]
    /\ evaluated = FALSE
    /\ error = "none"

\* no file at saved_weights_name, or one whose weights scored a val_loss of 1
PriorFiles == {NoFile, PriorFile(1)}

\* every label list and dataset, with a one-epoch training
DatasetRuns ==
    \E given \in SeqsUpTo(LabelNames, MaxLabelLen), seen \in SUBSET LabelNames,
       n \in 0..MaxTrain, exists \in BOOLEAN, m \in {0, 2},
       vseen \in {{}, LabelNames} :
       /\ ~exists => (m = 0 /\ vseen = {})
       /\ Start([labels |-> given, nb_epochs |-> 1, warmup_epochs |-> 0,
                 train_times |-> 1, valid_times |-> 1],
                [train_n |-> n, train_seen |-> seen, valid_annot_exists |-> exists,
                 valid_n |-> m, valid_seen |-> vseen, len_train |-> 1,
                 len_valid |-> 1, prior_file |-> NoFile])

\* every warmup setting and generator length, with one small dataset
WarmupRuns ==
    \E we \in {0, 2}, tt \in {1, 2}, vt \in {1, 2},
       lt \in 0..MaxGenLen, lv \in 0..MaxGenLen, prior \in PriorFiles :
       Start([labels |-> <<>>, nb_epochs |-> 0, warmup_epochs |-> we,
              train_times |-> tt, valid_times |-> vt],
             [train_n |-> 2, train_seen |-> {1}, valid_annot_exists |-> FALSE,
              valid_n |-> 0, valid_seen |-> {}, len_train |-> lt,
              len_valid |-> lv, prior_file |-> prior])

\* every number of epochs and prior weights file, with one small dataset
TrainingRuns ==
    \E ne \in 0..MaxEpochs, prior \in PriorFiles :
       Start([labels |-> <<>>, nb_epochs |-> ne, warmup_epochs |-> 0,
              train_times |-> 1, valid_times |-> 1],
             [train_n |-> 2, train_seen |-> {1}, valid_annot_exists |-> FALSE,
              valid_n |-> 0, valid_seen |-> {}, len_train |-> 1,
              len_valid |-> 1, prior_file |-> prior])

Init == DatasetRuns \/ WarmupRuns \/ TrainingRuns

Next ==
    \/ ParseTrain
    \/ ParseValid
    \/ ShuffleSplit
    \/ CompareLabels
    \/ TrainGenerator
    \/ ValidGenerator
    \/ Warmup
    \/ CreateModel
    \/ LoadWeights
    \/ Compile
    \/ FitEpoch
    \/ Reload
    \/ Save
    \/ Evaluate

Spec == Init /\ [][Next]_vars

(******************************* properties *******************************)
\* create_training_instances has returned to _main_
Returned == pc \notin {"parse_train", "parse_valid", "split", "compare_labels"}

\* the result was (None, None, None)
Aborted == Returned /\ train_ints.none /\ valid_ints.none /\ labels.none

SomeGivenLabelUnseen == \E i \in 1..Len(config.labels) : config.labels[i] \notin disk.train_seen

\* C1: if the configured label list holds a label that the training annotations
\* never show, create_training_instances returns None for all three outputs,
\* with the validation folder present or not.
C1_MissingLabelReturnsNone ==
    (Returned /\ SomeGivenLabelUnseen)
        => (train_ints = None /\ valid_ints = None /\ labels = None)

C1_Witness ==
    /\ pc = "train_generator"
    /\ Len(config.labels) = 2
    /\ config.labels[1] \in disk.train_seen
    /\ config.labels[2] \notin disk.train_seen
    /\ ~disk.valid_annot_exists
    /\ disk.train_n > 0
    /\ train_ints = None

\* C2: for a non-empty configured label list, repeats allowed, whose elements all
\* occur in the training annotations, create_training_instances returns train and
\* validation lists that are not None and the configured list itself as labels.
C2_SeenLabelsProceed ==
    (Returned /\ Len(config.labels) > 0 /\ ~SomeGivenLabelUnseen)
        => (~train_ints.none /\ ~valid_ints.none /\ labels = Some(config.labels))

\* C3: with an empty configured label list the call never aborts and returns the
\* distinct labels of the training annotations in ascending order; the labels of
\* the validation annotations play no part.
C3_EmptyListGivesSortedSeen ==
    (Returned /\ config.labels = <<>>)
        => /\ ~train_ints.none /\ ~valid_ints.none /\ ~labels.none
           /\ ToSet(labels.val) = disk.train_seen
           /\ \A i, j \in 1..Len(labels.val) : i < j => labels.val[i] < labels.val[j]

C3_Witness ==
    /\ pc = "train_generator"
    /\ config.labels = <<>>
    /\ disk.train_seen = {1}
    /\ disk.valid_annot_exists
    /\ disk.valid_seen = {1, 2}
    /\ labels = Some(<<1>>)

\* the lists t and v are a split of the n training instances at int(0.8*n):
\* t holds int(0.8*n) of them, v the rest, and every instance is at exactly one
\* position of t followed by v
IsSplit(t, v, n) ==
    /\ Len(t) = (8 * n) \div 10
    /\ Len(v) = n - (8 * n) \div 10
    /\ \A x \in 1..n : Cardinality({i \in 1..Len(t \o v) : (t \o v)[i] = x}) = 1

\* C4: when the validation folder does not exist, the n parsed training instances
\* are shuffled and split: int(0.8*n) of them are the training list, the other
\* n - int(0.8*n) the validation list, no instance in both, every instance in one.
C4_SplitEightyTwenty ==
    /\ (pc = "compare_labels" /\ ~disk.valid_annot_exists)
           => IsSplit(frame.train_ints, frame.valid_ints, disk.train_n)
    /\ (Returned /\ ~disk.valid_annot_exists /\ ~Aborted)
           => IsSplit(train_ints.val, valid_ints.val, disk.train_n)

C4_Witness ==
    /\ pc = "train_generator"
    /\ ~disk.valid_annot_exists
    /\ disk.train_n = 3
    /\ train_ints = Some(<<3, 1>>)
    /\ valid_ints = Some(<<2>>)

\* C5: the warmup batch count handed to create_yolov3_model is 0 when a file
\* exists at train.saved_weights_name, and otherwise
\* warmup_epochs * (train_times * len(train_generator) + valid_times * len(valid_generator)).
C5_WarmupBatches ==
    (pc = "load_weights")
        => /\ model.created
           /\ model.warmup_batches =
                 IF file.exists THEN 0
                 ELSE config.warmup_epochs
                        * (config.train_times * train_generator.len
                           + config.valid_times * valid_generator.len)

C5_Witness ==
    /\ pc = "load_weights"
    /\ ~file.exists
    /\ config.train_times = 1
    /\ config.valid_times = 2
    /\ train_generator.len = 2
    /\ valid_generator.len = 1
    /\ model.warmup_batches = 8

\* C6: in a run whose dataset preparation returned (None, None, None), no batch
\* generator is built from the None values, create_yolov3_model is not called, no
\* weights are loaded and the fit loop is not started.
C6_AbortBeforeModelWork ==
    Aborted
        => /\ ~train_generator.built
           /\ ~valid_generator.built
           /\ ~model.created
           /\ train_weights = NoWeights
           /\ pc \notin {"fit", "save", "evaluate", "done"}

\* C7: when the validation folder exists, the validation list is the parser's
\* result for it and the training list is the whole parsed training list in the
\* parser's order; the shuffle and split run only when the folder does not exist.
C7_ValidationFolderParsed ==
    /\ (pc = "compare_labels" /\ disk.valid_annot_exists)
           => /\ frame.train_ints = [i \in 1..disk.train_n |-> i]
              /\ frame.valid_ints = [i \in 1..disk.valid_n |-> 0 - i]
    /\ (Returned /\ disk.valid_annot_exists /\ ~Aborted)
           => /\ train_ints.val = [i \in 1..disk.train_n |-> i]
              /\ valid_ints.val = [i \in 1..disk.valid_n |-> 0 - i]
    /\ (pc = "split") => ~disk.valid_annot_exists
    /\ (pc = "parse_valid") => disk.valid_annot_exists

C7_Witness ==
    /\ pc = "train_generator"
    /\ disk.valid_annot_exists
    /\ disk.train_n = 3
    /\ disk.valid_n = 2
    /\ train_ints = Some(<<1, 2, 3>>)
    /\ valid_ints = Some(<<-1, -2>>)

\* the epochs of the run whose val_loss is a number, and the first among those of
\* lowest val_loss
Scored == {e \in 1..Len(val_losses) : val_losses[e].k = "num"}
BestEpoch ==
    CHOOSE e \in Scored :
        \A f \in Scored : val_losses[e].v < val_losses[f].v
                          \/ (val_losses[e].v = val_losses[f].v /\ e <= f)

\* what the checkpoint policy leaves at saved_weights_name after the epochs so far
BestCheckpoint ==
    IF Scored = {} THEN disk.prior_file
    ELSE [exists |-> TRUE, writer |-> "checkpoint",
          weights |-> [origin |-> "epoch", epoch |-> BestEpoch,
                       val_loss |-> val_losses[BestEpoch]]]

FitStarted == pc \in {"fit", "save", "evaluate", "done"} \/ (pc = "error" /\ error = "load_weights")
FitOver == pc \in {"save", "evaluate", "done"} \/ (pc = "error" /\ error = "load_weights")

\* C8 as stated: every run that passed dataset preparation reloads the checkpoint
\* into the inference model, then saves the inference model to the same path, then
\* evaluates, also when no epoch wrote a checkpoint or no prior file existed.
C8_EveryRunReloadsAndPersists ==
    /\ (Returned /\ ~Aborted) => pc # "error"
    /\ (pc = "save") => (file.exists /\ infer_weights = file.weights)
    /\ (pc \in {"evaluate", "done"})
           => file = [exists |-> TRUE, writer |-> "infer", weights |-> infer_weights]
    /\ evaluated => pc = "done"

\* C8, amended: once the fit loop has ended, the weights in the file at
\* saved_weights_name (the best checkpoint of the run, or the prior file when no
\* epoch wrote one) are loaded into the inference model, then the inference model
\* is saved to that path, and only then evaluation runs; when no file is there
\* (no prior file and no epoch wrote a checkpoint) the reload fails and nothing
\* is saved or evaluated.
C8_ReloadPersistEvaluate ==
    /\ (pc = "save")
           => /\ file.exists /\ file = BestCheckpoint
              /\ infer_weights = file.weights
              /\ ~evaluated
    /\ (pc \in {"evaluate", "done"})
           => /\ infer_weights = BestCheckpoint.weights
              /\ file = [exists |-> TRUE, writer |-> "infer", weights |-> infer_weights]
    /\ evaluated <=> pc = "done"
    /\ (pc = "error" /\ Returned /\ ~Aborted)
           => /\ error = "load_weights"
              /\ ~disk.prior_file.exists /\ Scored = {}
              /\ ~file.exists /\ infer_weights = NoWeights /\ ~evaluated

C8_Witness ==
    /\ pc = "done"
    /\ evaluated
    /\ Len(val_losses) = 3
    /\ infer_weights.origin = "epoch"
    /\ infer_weights.epoch = 2
    /\ train_weights.epoch = 3
    /\ file.writer = "infer"

\* C9 as stated: the weights are written exactly at the epochs whose val_loss is
\* lower than that of every earlier epoch, so the file holds the weights of the
\* epoch of lowest val_loss so far, and a file that existed before the run is only
\* replaced by weights of lower val_loss.
C9_PriorFileOnlyReplacedByBetter ==
    /\ (pc = "fit") => file = BestCheckpoint
    /\ (pc = "fit" /\ disk.prior_file.exists /\ file.writer = "checkpoint")
           => Less(file.weights.val_loss, disk.prior_file.weights.val_loss)

\* C9, amended: the weights are written exactly at the epochs whose val_loss is
\* lower than that of every earlier epoch of the run, so that during the fit loop
\* the file holds the weights of the first epoch of lowest val_loss so far; a file
\* that existed before the run stays until the first epoch with a numeric val_loss
\* and is replaced then, whatever val_loss its own weights had.
C9_FileHoldsBestEpoch ==
    /\ (pc = "fit") => file = BestCheckpoint
    /\ (pc = "fit" /\ Scored # {}) => checkpoint.best = val_losses[BestEpoch]
    /\ (pc = "fit" /\ Scored = {}) => checkpoint.best = Inf

C9_Witness ==
    /\ pc = "fit"
    /\ disk.prior_file = PriorFile(1)
    /\ val_losses = <<Num(3), Num(2), Num(2)>>
    /\ file.writer = "checkpoint"
    /\ file.weights.epoch = 2

\* the reference value of early stopping after the epochs h (the val_loss of the
\* last epoch that undercut the reference before it by more than d), and the
\* number of epochs at the end of h that did not; d is in units of 0.0005, so
\* "by more than 0.001" is d = 2 and "by at least 0.001" is d = 1
RECURSIVE Reference(_, _)
Reference(h, d) ==
    IF h = <<>> THEN Inf
    ELSE LET before == Reference(SubSeq(h, 1, Len(h) - 1), d)
             last == h[Len(h)]
         IN  IF last.k = "num" /\ (before.k = "inf" \/ before.v - last.v > d)
             THEN last ELSE before

RECURSIVE Stale(_, _)
Stale(h, d) ==
    IF h = <<>> THEN 0
    ELSE LET before == Reference(SubSeq(h, 1, Len(h) - 1), d)
             last == h[Len(h)]
         IN  IF last.k = "num" /\ (before.k = "inf" \/ before.v - last.v > d)
             THEN 0 ELSE Stale(SubSeq(h, 1, Len(h) - 1), d) + 1

\* C10 as stated: training stops exactly when val_loss has not improved on the
\* reference by at least 0.001 for 3 epochs in a row, and an epoch the checkpoint
\* callback saves also resets the early-stopping counter.
C10_StopsAfterThreeAndSaveResets ==
    FitStarted
        => /\ stop_training <=> Stale(val_losses, 1) >= 3
           /\ FitOver => (stop_training \/ epoch = Epochs)
           /\ (file.writer = "checkpoint" /\ file.weights.epoch = epoch)
                  => early_stop.wait = 0

\* C10, amended: training stops exactly when val_loss has not improved on the
\* early-stopping reference by more than 0.001 for 3 epochs in a row (an
\* improvement of exactly 0.001 does not count), and does not stop early
\* otherwise; an epoch the checkpoint callback saves resets the counter only when
\* it improves on the reference by more than 0.001.
C10_StopsAfterThreeStaleEpochs ==
    FitStarted
        => /\ early_stop.wait = Stale(val_losses, 2)
           /\ early_stop.best = Reference(val_losses, 2)
           /\ stop_training <=> Stale(val_losses, 2) >= 3
           /\ FitOver => (stop_training \/ epoch = Epochs)
           /\ epoch = Len(val_losses) /\ epoch <= Epochs

C10_Witness ==
    /\ pc = "save"
    /\ stop_training
    /\ epoch < Epochs
    /\ val_losses = <<Num(3), Num(2), Num(1), Num(1)>>
    /\ file.weights.epoch = 3

====
